---------------------------- MODULE Spec2Model ----------------------------
(***************************************************************************)
(* Presence types of ngicks/undefinedablejson: Option[T], Und[T] and       *)
(* Elastic[T], their JSON codecs and their equality.                       *)
(*                                                                         *)
(* JSON text is a sequence of one-character strings.  The grammar covered  *)
(* is: the null literal, unsigned integers, quoted strings, arrays, and    *)
(* blanks between tokens.  T ranges over the type descriptors of Types.    *)
(***************************************************************************)
EXTENDS Integers, Sequences, FiniteSets, TLC

\* ------------------------------------------------------------------ bounds
\* largest int held by a value of T
MaxInt == 1
\* longest []int value of T drawn as an input
MaxLen == 1
\* longest Options[T] (the sequence backing an Elastic) drawn as an input
MaxElems == 2
\* pointers drawn as inputs point into cells 1..MaxAddr
MaxAddr == 2

\* ------------------------------------------------------------- JSON texts
NullLit == <<"n", "u", "l", "l">>

DigitChar == <<"0", "1", "2", "3", "4", "5", "6", "7", "8", "9">>

DigitSet == {DigitChar[i] : i \in 1..10}

DigitVal(c) == (CHOOSE i \in 1..10 : DigitChar[i] = c) - 1

\* strconv's decimal formatting of a non-negative int
RECURSIVE FormatInt(_)
FormatInt(n) ==
    IF n < 10 THEN <<DigitChar[n + 1]>>
    ELSE FormatInt(n \div 10) \o <<DigitChar[(n % 10) + 1]>>

\* strconv's parse of a run of decimal digits
RECURSIVE ParseInt(_)
ParseInt(s) ==
    IF Len(s) = 0 THEN 0
    ELSE 10 * ParseInt(SubSeq(s, 1, Len(s) - 1)) + DigitVal(s[Len(s)])

\* the elements of texts joined by commas
RECURSIVE JoinComma(_)
JoinComma(texts) ==
    IF Len(texts) = 0 THEN <<>>
    ELSE IF Len(texts) = 1 THEN texts[1]
    ELSE texts[1] \o <<",">> \o JoinComma(Tail(texts))

\* ------------------------------------------------------------ JSON syntax
\* A parsed value: kind k, the number n, the elements es of an array, and
\* raw, the value's own text (what the decoder hands to an Unmarshaler).
JNode(k, n, es, raw) == [k |-> k, n |-> n, es |-> es, raw |-> raw]

ParseFail == [ok |-> FALSE, v |-> JNode("invalid", 0, <<>>, <<>>), next |-> 0]

ParseOk(v, next) == [ok |-> TRUE, v |-> v, next |-> next]

RECURSIVE SkipSpace(_, _)
SkipSpace(s, i) ==
    IF i <= Len(s) /\ s[i] = " " THEN SkipSpace(s, i + 1) ELSE i

\* first index at or after i that holds no digit
RECURSIVE DigitsEnd(_, _)
DigitsEnd(s, i) ==
    IF i <= Len(s) /\ s[i] \in DigitSet THEN DigitsEnd(s, i + 1) ELSE i

\* index of the closing quote of a string whose body starts at i
RECURSIVE QuoteEnd(_, _)
QuoteEnd(s, i) ==
    IF i > Len(s) THEN i
    ELSE IF s[i] = "\"" THEN i
    ELSE QuoteEnd(s, i + 1)

RECURSIVE ParseValue(_, _)
RECURSIVE ParseElems(_, _, _)

BadElems == [ok |-> FALSE, es |-> <<>>, next |-> 0]

\* after the element r of an array: a ',' and the next element, or the ']'
\* at j
ElemsAfter(s, acc, r, j) ==
    IF j > Len(s) THEN BadElems
    ELSE IF s[j] = "," THEN ParseElems(s, j + 1, Append(acc, r.v))
    ELSE IF s[j] = "]" THEN [ok |-> TRUE, es |-> Append(acc, r.v), next |-> j + 1]
    ELSE BadElems

ElemsFrom(s, acc, r) ==
    IF ~r.ok THEN BadElems ELSE ElemsAfter(s, acc, r, SkipSpace(s, r.next))

\* the elements of an array after its '[', first element at or after i
ParseElems(s, i, acc) == ElemsFrom(s, acc, ParseValue(s, i))

\* the array that starts at i and whose elements parsed as r
ArrayOf(s, i, r) ==
    IF ~r.ok THEN ParseFail
    ELSE ParseOk(JNode("array", 0, r.es, SubSeq(s, i, r.next - 1)), r.next)

\* the array that starts at i, j being the first non-blank after its '['
ArrayAt(s, i, j) ==
    IF j <= Len(s) /\ s[j] = "]"
    THEN ParseOk(JNode("array", 0, <<>>, SubSeq(s, i, j)), j + 1)
    ELSE ArrayOf(s, i, ParseElems(s, i + 1, <<>>))

\* the number whose digits are s[i..j-1]
NumberAt(s, i, j) ==
    IF s[i] = "0" /\ j > i + 1 THEN ParseFail
    ELSE ParseOk(JNode("number", ParseInt(SubSeq(s, i, j - 1)), <<>>,
                       SubSeq(s, i, j - 1)), j)

\* the string that starts at i and whose closing quote is at j
StringAt(s, i, j) ==
    IF j > Len(s) THEN ParseFail
    ELSE ParseOk(JNode("string", 0, <<>>, SubSeq(s, i, j)), j + 1)

\* the JSON value whose first character is at i
ValueAt(s, i) ==
    IF i > Len(s) THEN ParseFail
    ELSE IF s[i] = "n" THEN
        IF i + 3 <= Len(s) /\ SubSeq(s, i, i + 3) = NullLit
        THEN ParseOk(JNode("null", 0, <<>>, NullLit), i + 4)
        ELSE ParseFail
    ELSE IF s[i] \in DigitSet THEN NumberAt(s, i, DigitsEnd(s, i))
    ELSE IF s[i] = "\"" THEN StringAt(s, i, QuoteEnd(s, i + 1))
    ELSE IF s[i] = "[" THEN ArrayAt(s, i, SkipSpace(s, i + 1))
    ELSE ParseFail

\* one JSON value starting at or after i (blanks skipped)
ParseValue(s, i) == ValueAt(s, SkipSpace(s, i))

\* r when nothing but blanks follows the value
WholeText(data, r) ==
    IF r.ok /\ SkipSpace(data, r.next) > Len(data) THEN r ELSE ParseFail

\* the whole text as one JSON value: ok is FALSE on a syntax error
ParseJSON(data) == WholeText(data, ParseValue(data, 1))

\* ------------------------------------------------------ the type parameter
\* T = int, and T = []int (array-shaped on the wire, nil encodes as null)
JsonTypes == {"int", "slice"}

\* a Go slice value: nil, or a (possibly empty) sequence of elements
NilSlice == [isNil |-> TRUE, elems |-> <<>>]

MkSlice(elems) == [isNil |-> FALSE, elems |-> elems]

SeqsUpTo(S, n) == UNION {[1..k -> S] : k \in 0..n}

Ints == 0..MaxInt

\* the values of T drawn as inputs
TVals(ty) ==
    IF ty = "int" THEN Ints
    ELSE {NilSlice} \cup {MkSlice(s) : s \in SeqsUpTo(Ints, MaxLen)}

\* var zero T
Zero(ty) == IF ty = "int" THEN 0 ELSE NilSlice

\* ------------------------------------------------------------------ errors
NoErr == [kind |-> "nil", value |-> "", type |-> ""]

SyntaxError == [kind |-> "SyntaxError", value |-> "", type |-> ""]

\* json.UnmarshalTypeError{Value, Type}
TypeError(value, type) == [kind |-> "UnmarshalTypeError", value |-> value, type |-> type]

\* --------------------------------------------------------------- Option[T]
Some(v) == [some |-> TRUE, v |-> v]

\* None[T](), zero being T's zero value
None(zero) == [some |-> FALSE, v |-> zero]

IsSome(o) == o.some

IsNone(o) == ~IsSome(o)

Value(o) == o.v

\* a *T: nil, or a pointer to val
NilPtr == [isNil |-> TRUE, val |-> 0]

PtrTo(val) == [isNil |-> FALSE, val |-> val]

\* ------------------------------------------------- encoding/json for T
\* json.Marshal(v) for v of type T
MarshalT(ty, v) ==
    IF ty = "int" THEN FormatInt(v)
    ELSE IF v.isNil THEN NullLit
    ELSE <<"[">> \o JoinComma([i \in 1..Len(v.elems) |-> FormatInt(v.elems[i])]) \o <<"]">>

\* the decoder storing one parsed value into an int that holds cur
DecodeInt(node, cur) ==
    IF node.k = "null" THEN [err |-> NoErr, v |-> cur]
    ELSE IF node.k = "number" THEN [err |-> NoErr, v |-> node.n]
    ELSE [err |-> TypeError(node.k, "int"), v |-> cur]

\* the first error among the element results rs, if any (decode.saveError)
RECURSIVE FirstErr(_)
FirstErr(rs) ==
    IF Len(rs) = 0 THEN NoErr
    ELSE IF Head(rs).err # NoErr THEN Head(rs).err
    ELSE FirstErr(Tail(rs))

\* the decoder storing one parsed value into a []int that holds cur: an
\* array is decoded element by element, element i into cur's element i
\* when it exists; a type error is saved and decoding goes on
DecodeSlice(node, cur) ==
    IF node.k = "null" THEN [err |-> NoErr, v |-> NilSlice]
    ELSE IF node.k = "array" THEN
        LET rs == [i \in 1..Len(node.es) |->
                     DecodeInt(node.es[i],
                               IF i <= Len(cur.elems) THEN cur.elems[i] ELSE 0)]
        IN [err |-> FirstErr(rs),
            v |-> MkSlice([i \in 1..Len(rs) |-> rs[i].v])]
    ELSE [err |-> TypeError(node.k, "[]int"), v |-> cur]

DecodeT(ty, node, cur) ==
    IF ty = "int" THEN DecodeInt(node, cur) ELSE DecodeSlice(node, cur)

\* the decoder storing the parsed text p into a T that holds cur
StoreT(ty, p, cur) ==
    IF ~p.ok THEN [err |-> SyntaxError, v |-> cur]
    ELSE DecodeT(ty, p.v, cur)

\* json.Unmarshal(data, &t) for t of type T holding cur
UnmarshalT(ty, data, cur) == StoreT(ty, ParseJSON(data), cur)

\* (o Option[T]) MarshalJSON
OptionMarshalJSON(ty, o) ==
    IF ~o.some THEN NullLit ELSE MarshalT(ty, o.v)

\* o after json.Unmarshal(data, &o.v) returned r
OptionAfter(o, r) ==
    IF r.err # NoErr THEN [err |-> r.err, o |-> [some |-> o.some, v |-> r.v]]
    ELSE [err |-> NoErr, o |-> [some |-> TRUE, v |-> r.v]]

\* (o *Option[T]) UnmarshalJSON
OptionUnmarshalJSON(ty, o, data) ==
    IF data = NullLit THEN [err |-> NoErr, o |-> [some |-> FALSE, v |-> Zero(ty)]]
    ELSE OptionAfter(o, UnmarshalT(ty, data, o.v))

\* ---------------------------------------------------------------- equality
\* The types T of the equality cases: int (comparable), slice ([]int, not
\* comparable), ptr (*int, == compares addresses), CustomizedEquality
\* (struct{V *int} with Equal comparing *V modulo 30),
\* NonComparableButEquality (a slice type with an element-wise Equal),
\* PtrEquality (a pointer type *U whose Equal compares the pointees) and
\* PtrRecvEquality (struct{n, tag int} whose Equal, declared on the pointer
\* receiver, compares n only).
EqTypes == {"int", "slice", "ptr", "CustomizedEquality",
            "NonComparableButEquality", "PtrEquality", "PtrRecvEquality"}

\* *e.V%30 == *other.V%30
Modulus == 30

\* a non-nil *int: the cell it points to and the int stored there
Pointers == {[addr |-> a, val |-> v] : a \in 1..MaxAddr, v \in Ints \cup {i + Modulus : i \in Ints}}

\* two pointers into the same cell see the same int
SameHeap(p, q) == p.addr = q.addr => p.val = q.val

EqVals(ty) ==
    CASE ty = "int" -> Ints
      [] ty = "slice" -> {NilSlice} \cup {MkSlice(s) : s \in SeqsUpTo(Ints, MaxLen)}
      [] ty = "ptr" -> Pointers
      [] ty = "CustomizedEquality" -> {[V |-> p] : p \in Pointers}
      [] ty = "NonComparableButEquality" ->
            {NilSlice} \cup {MkSlice(s) : s \in SeqsUpTo({"foo", "bar"}, MaxLen)}
      [] ty = "PtrEquality" -> Pointers
      [] ty = "PtrRecvEquality" -> {[n |-> n, tag |-> t] : n \in Ints, t \in Ints}

\* values a and b of T that can exist together
Coexist(ty, a, b) ==
    CASE ty \in {"ptr", "PtrEquality"} -> SameHeap(a, b)
      [] ty = "CustomizedEquality" -> SameHeap(a.V, b.V)
      [] OTHER -> TRUE

\* the result of a call that may panic
Ret(b) == [panic |-> FALSE, ret |-> b]

Panic == [panic |-> TRUE, ret |-> FALSE]

\* T supports ==
Comparable(ty) ==
    ty \in {"int", "ptr", "CustomizedEquality", "PtrEquality", "PtrRecvEquality"}

\* a comparison by reflect.DeepEqual, which has a result for every type
GoEqDeepEqual(ty, t, u) ==
    CASE ~Comparable(ty) -> Ret(t = u)
      [] ty = "int" -> Ret(t = u)
      [] ty \in {"ptr", "PtrEquality"} -> Ret(t.addr = u.addr)
      [] ty = "CustomizedEquality" -> Ret(t.V.addr = u.V.addr)
      [] ty = "PtrRecvEquality" -> Ret(t.n = u.n /\ t.tag = u.tag)

\* `any(t) == any(u)`: T's == operator, a panic when T has none
GoEq(ty, t, u) ==
    CASE ~Comparable(ty) -> Panic
      [] ty = "int" -> Ret(t = u)
      [] ty \in {"ptr", "PtrEquality"} -> Ret(t.addr = u.addr)
      [] ty = "CustomizedEquality" -> Ret(t.V.addr = u.V.addr)
      [] ty = "PtrRecvEquality" -> Ret(t.n = u.n /\ t.tag = u.tag)

\* the Equal method a type T of the cases declares
UserEqual(ty, t, u) ==
    CASE ty = "CustomizedEquality" -> Ret(t.V.val % Modulus = u.V.val % Modulus)
      [] ty = "NonComparableButEquality" -> Ret(t.elems = u.elems)
      [] ty = "PtrEquality" -> Ret(t.val = u.val)
      [] ty = "PtrRecvEquality" -> Ret(t.n = u.n)
      [] OTHER -> Panic

\* A type is w applied to ty: w lists the wrappers, outermost first
\* ("Option" for Option[_], "Options" for Options[_]).
\* any(t).(Equality[T]) succeeds
ImplementsEquality(w, ty) ==
    \/ w # <<>>
    \/ ty \in {"CustomizedEquality", "NonComparableButEquality", "PtrEquality"}

\* any(&t).(Equality[T]) succeeds
PtrImplementsEquality(w, ty) ==
    ImplementsEquality(w, ty) \/ ty = "PtrRecvEquality"

RECURSIVE equal(_, _, _, _)
RECURSIVE OptionEqual(_, _, _, _)
RECURSIVE OptionsEqual(_, _, _, _)
RECURSIVE MethodEqual(_, _, _, _)

\* Equal whose simple case returns o.some && other.some
OptionEqualBothSome(w, ty, o, other) ==
    IF ~o.some \/ ~other.some THEN Ret(o.some /\ other.some)
    ELSE equal(w, ty, o.v, other.v)

\* (o Option[T]) Equal, T being w applied to ty
OptionEqual(w, ty, o, other) ==
    IF ~o.some \/ ~other.some THEN Ret(o.some = other.some)
    ELSE equal(w, ty, o.v, other.v)

\* (o Options[T]) Equal: same length and element-wise Option.Equal
OptionsEqual(w, ty, a, b) ==
    IF Len(a.elems) # Len(b.elems) THEN Ret(FALSE)
    ELSE IF Len(a.elems) = 0 THEN Ret(TRUE)
    ELSE LET r == OptionEqual(w, ty, a.elems[1], b.elems[1]) IN
         IF r.panic \/ ~r.ret THEN r
         ELSE OptionsEqual(w, ty, MkSlice(Tail(a.elems)), MkSlice(Tail(b.elems)))

\* eq.Equal(u): the Equal method of the type w applied to ty
MethodEqual(w, ty, t, u) ==
    IF w = <<>> THEN UserEqual(ty, t, u)
    ELSE IF Head(w) = "Option" THEN OptionEqual(Tail(w), ty, t, u)
    ELSE OptionsEqual(Tail(w), ty, t, u)

\* equal that compares by == whenever T has it, before the type assertions
equalOperatorFirst(w, ty, t, u) ==
    IF w = <<>> /\ Comparable(ty) THEN GoEq(ty, t, u)
    ELSE IF ImplementsEquality(w, ty) THEN MethodEqual(w, ty, t, u)
    ELSE IF PtrImplementsEquality(w, ty) THEN MethodEqual(w, ty, t, u)
    ELSE GoEq(ty, t, u)

\* equal[T](t, u)
equal(w, ty, t, u) ==
    IF ImplementsEquality(w, ty) THEN MethodEqual(w, ty, t, u)
    ELSE IF PtrImplementsEquality(w, ty) THEN MethodEqual(w, ty, t, u)
    ELSE GoEq(ty, t, u)


\* ------------------------------------------------------------------ Und[T]
\* An Und is [opt |-> Option[Option[T]]]; z is T's zero value.
Defined(t) == [opt |-> Some(Some(t))]

Null(z) == [opt |-> Some(None(z))]

\* Und[T]{}: the zero value
Undefined(z) == [opt |-> None(None(z))]

FromPointer(z, p) == IF p.isNil THEN Undefined(z) ELSE Defined(p.val)

FromOption(opt) == [opt |-> opt]

IsDefined(u) == IsSome(u.opt) /\ IsSome(Value(u.opt))

\* IsNull without the test of the outer option
IsNullInnerOnly(u) == IsNone(Value(u.opt))

IsNull(u) == IsSome(u.opt) /\ IsNone(Value(u.opt))

IsUndefined(u) == IsNone(u.opt)

IsZero(u) == IsUndefined(u)

\* (u Und[T]) Equal
UndEqual(ty, u, other) == OptionEqual(<<"Option">>, ty, u.opt, other.opt)

\* (u Und[T]) Get
Get(z, u) == IF IsDefined(u) THEN Value(Value(u.opt)) ELSE z

\* the functions f handed to Und.Map
MapFns == {"id", "toNone", "toNull", "toZero"}

ApplyMapFn(f, z, o) ==
    CASE f = "id" -> o
      [] f = "toNone" -> None(None(z))
      [] f = "toNull" -> Some(None(z))
      [] f = "toZero" -> Some(Some(z))

\* (u Und[T]) Map
Map(f, z, u) == [opt |-> ApplyMapFn(f, z, u.opt)]

\* json.Marshal(v) for v of type Options[T]: a slice of Option[T]
MarshalOptions(ty, opts) ==
    IF opts.isNil THEN NullLit
    ELSE <<"[">>
         \o JoinComma([i \in 1..Len(opts.elems) |-> OptionMarshalJSON(ty, opts.elems[i])])
         \o <<"]">>

\* json.Marshal(v) for v of type w applied to ty (w is <<>> or <<"Options">>)
MarshalValue(w, ty, v) ==
    IF w = <<>> THEN MarshalT(ty, v) ELSE MarshalOptions(ty, v)

\* MarshalJSON that encodes the stored T of a null Und
UndMarshalJSONNullAsValue(w, ty, u) ==
    IF IsUndefined(u) THEN [data |-> NullLit, err |-> NoErr]
    ELSE [data |-> MarshalValue(w, ty, Value(Value(u.opt))), err |-> NoErr]

\* (u Und[T]) MarshalJSON, T being w applied to ty
UndMarshalJSON(w, ty, u) ==
    IF IsUndefined(u) \/ IsNull(u) THEN [data |-> NullLit, err |-> NoErr]
    ELSE [data |-> MarshalValue(w, ty, Value(Value(u.opt))), err |-> NoErr]

\* u after the decode of a T returned r
UndAfter(u, r) ==
    IF r.err # NoErr THEN [err |-> r.err, u |-> u]
    ELSE [err |-> NoErr, u |-> Defined(r.v)]

\* UnmarshalJSON that resets the receiver to its zero value on null
UndUnmarshalJSONNullResets(ty, u, data) ==
    IF data = NullLit THEN [err |-> NoErr, u |-> Undefined(Zero(ty))]
    ELSE UndAfter(u, UnmarshalT(ty, data, Zero(ty)))

\* (u *Und[T]) UnmarshalJSON: the error returned and the receiver afterwards
UndUnmarshalJSON(ty, u, data) ==
    IF data = NullLit THEN [err |-> NoErr, u |-> Null(Zero(ty))]
    ELSE UndAfter(u, UnmarshalT(ty, data, Zero(ty)))

\* dec.PeekKind(): the first character after the blanks ("" at the end)
PeekKind(data) ==
    LET i == SkipSpace(data, 1) IN IF i > Len(data) THEN "" ELSE data[i]

\* one value read off a decoder's stream
ReadValue(data) == ParseValue(data, 1)

\* dec.SkipValue(): reads one value off the stream
SkipValue(data) == IF ReadValue(data).ok THEN NoErr ELSE SyntaxError

\* jsonv2.UnmarshalDecode(dec, &t, opts): reads one value off the stream
UnmarshalDecodeT(ty, data) == StoreT(ty, ReadValue(data), Zero(ty))

\* u after dec.SkipValue() returned skipErr
UndAfterSkip(ty, u, skipErr) ==
    IF skipErr # NoErr THEN [err |-> skipErr, u |-> u]
    ELSE [err |-> NoErr, u |-> Null(Zero(ty))]

\* (u *Und[T]) UnmarshalJSONV2
UndUnmarshalJSONV2(ty, u, data) ==
    IF PeekKind(data) = "n" THEN UndAfterSkip(ty, u, SkipValue(data))
    ELSE UndAfter(u, UnmarshalDecodeT(ty, data))

\* ------------------------------------------------------------ input texts
\* null, blank-padded null, nul, 1, 12, [], [1,2,3], [null], [1,"a"], "a",
\* [1 (unclosed), [[1],[2]], [[1],2], ["a"], 1 2, the empty text, [
FixedInputs ==
    { NullLit,
      <<" ", "n", "u", "l", "l">>,
      <<"n", "u", "l">>,
      <<"1">>,
      <<"1", "2">>,
      <<"[", "]">>,
      <<"[", "1", ",", "2", ",", "3", "]">>,
      <<"[", "n", "u", "l", "l", "]">>,
      <<"[", "1", ",", "\"", "a", "\"", "]">>,
      <<"\"", "a", "\"">>,
      <<"[", "1">>,
      <<"[", "[", "1", "]", ",", "[", "2", "]", "]">>,
      <<"[", "[", "1", "]", ",", "2", "]">>,
      <<"[", "\"", "a", "\"", "]">>,
      <<"1", " ", "2">>,
      <<>>,
      <<"[">> }


\* -------------------------------------------------------------- Elastic[T]
\* An Elastic[T] is an Und[Options[T]]; Options[T] is a slice of Option[T].
ElasticNull == Null(NilSlice)

ElasticUndefined == Undefined(NilSlice)

\* options is retained by the returned value
FromOptions(options) == Defined(options)

FromValue(t) == FromOptions(MkSlice(<<Some(t)>>))

ElasticFromPointer(p) == IF p.isNil THEN ElasticUndefined ELSE FromValue(p.val)

\* FromValues that appends to the len(ts) options make() returned
FromValuesAppending(ts) ==
    FromOptions(MkSlice([i \in 1..Len(ts.elems) |-> None(ts.elems[i])]
                        \o [i \in 1..Len(ts.elems) |-> Some(ts.elems[i])]))

\* ts is a []T: make(option.Options[T], len(ts)) filled with Some(ts[i])
FromValues(ts) ==
    FromOptions(MkSlice([i \in 1..Len(ts.elems) |-> Some(ts.elems[i])]))

\* len(o.inner().Value())
ElasticLen(e) == Len(Get(NilSlice, e).elems)

\* (e Elastic[T]) Equal
ElasticEqual(ty, e, other) ==
    OptionEqual(<<"Option", "Options">>, ty, e.opt, other.opt)

\* (u Elastic[T]) MarshalJSON: json.Marshal(u.inner())
ElasticMarshalJSON(ty, e) == UndMarshalJSON(<<"Options">>, ty, e)

RECURSIVE DecodeOptionElems(_, _, _)

\* after element Head(es) decoded as r: stop at an error, else go on
OptionElemsAfter(ty, es, acc, r) ==
    IF r.err # NoErr THEN [err |-> r.err, v |-> MkSlice(Append(acc, r.o))]
    ELSE DecodeOptionElems(ty, Tail(es), Append(acc, r.o))

\* the decoder filling a fresh Options[T] from the elements es of an array:
\* each element's text goes to Option.UnmarshalJSON, whose first error ends
\* the decode
DecodeOptionElems(ty, es, acc) ==
    IF Len(es) = 0 THEN [err |-> NoErr, v |-> MkSlice(acc)]
    ELSE OptionElemsAfter(ty, es, acc,
                          OptionUnmarshalJSON(ty, None(Zero(ty)), Head(es).raw))

\* the decoder storing the parsed text p into a fresh Options[T]
StoreOptions(ty, p) ==
    IF ~p.ok THEN [err |-> SyntaxError, v |-> NilSlice]
    ELSE IF p.v.k = "null" THEN [err |-> NoErr, v |-> NilSlice]
    ELSE IF p.v.k = "array" THEN DecodeOptionElems(ty, p.v.es, <<>>)
    ELSE [err |-> TypeError(p.v.k, "Options"), v |-> NilSlice]

\* json.Unmarshal(data, &t) for a fresh t of type Options[T]
UnmarshalOptions(ty, data) == StoreOptions(ty, ParseJSON(data))

\* the decoder storing the parsed text p into a fresh Option[T]: the
\* value's text goes to Option.UnmarshalJSON
StoreOption(ty, p) ==
    IF ~p.ok THEN [err |-> SyntaxError, o |-> None(Zero(ty))]
    ELSE OptionUnmarshalJSON(ty, None(Zero(ty)), p.v.raw)

\* json.Unmarshal(data, &t) for a fresh t of type Option[T]
UnmarshalOption(ty, data) == StoreOption(ty, ParseJSON(data))

\* e after the single Option[T] decode returned r
ElasticAfterOption(e, r) ==
    IF r.err # NoErr THEN [err |-> r.err, e |-> e]
    ELSE [err |-> NoErr, e |-> FromOptions(MkSlice(<<r.o>>))]

\* e after the Options[T] decode of a text starting with '[' returned r
ElasticAfterOptions(ty, e, data, r) ==
    IF r.err = NoErr THEN [err |-> NoErr, e |-> FromOptions(r.v)]
    ELSE ElasticAfterOption(e, UnmarshalOption(ty, data))

\* UnmarshalJSON that tries the single Option[T] before the sequence
ElasticScalarFirstAfter(ty, e, data, r) ==
    IF r.err = NoErr THEN [err |-> NoErr, e |-> FromOptions(MkSlice(<<r.o>>))]
    ELSE ElasticAfterOptions(ty, e, data, UnmarshalOptions(ty, data))

ElasticUnmarshalJSONScalarFirst(ty, e, data) ==
    IF data = NullLit THEN [err |-> NoErr, e |-> ElasticNull]
    ELSE ElasticScalarFirstAfter(ty, e, data, UnmarshalOption(ty, data))

\* UnmarshalJSON that reports the sequence decode's error when both fail
ElasticFirstErrorAfter(ty, e, data, r, r2) ==
    IF r.err = NoErr THEN [err |-> NoErr, e |-> FromOptions(r.v)]
    ELSE IF r2.err # NoErr THEN [err |-> r.err, e |-> e]
    ELSE [err |-> NoErr, e |-> FromOptions(MkSlice(<<r2.o>>))]

ElasticUnmarshalJSONFirstError(ty, e, data) ==
    IF data = NullLit THEN [err |-> NoErr, e |-> ElasticNull]
    ELSE IF Len(data) >= 2 /\ data[1] = "["
    THEN ElasticFirstErrorAfter(ty, e, data, UnmarshalOptions(ty, data),
                                UnmarshalOption(ty, data))
    ELSE ElasticAfterOption(e, UnmarshalOption(ty, data))

\* (e *Elastic[T]) UnmarshalJSON: the error returned and the receiver afterwards
ElasticUnmarshalJSON(ty, e, data) ==
    IF data = NullLit THEN [err |-> NoErr, e |-> ElasticNull]
    ELSE IF Len(data) >= 2 /\ data[1] = "["
    THEN ElasticAfterOptions(ty, e, data, UnmarshalOptions(ty, data))
    ELSE ElasticAfterOption(e, UnmarshalOption(ty, data))

\* the Option[T] and Options[T] values drawn as inputs
OptVals(ty) == {None(Zero(ty))} \cup {Some(v) : v \in TVals(ty)}

OptionsVals(ty) ==
    {NilSlice} \cup {MkSlice(s) : s \in SeqsUpTo(OptVals(ty), MaxElems)}

\* the []T values drawn as inputs
TSlices(ty) ==
    {NilSlice} \cup {MkSlice(s) : s \in SeqsUpTo(TVals(ty), MaxElems)}

\* the *T values drawn as inputs
TPtrs(ty) == {NilPtr} \cup {PtrTo(v) : v \in TVals(ty)}

\* the Option[Option[T]] values the Option API can build
NestedOptions(ty) ==
    {None(None(Zero(ty))), Some(None(Zero(ty)))} \cup {Some(Some(v)) : v \in TVals(ty)}

\* ------------------------------------------------------ equality inputs
\* the zero value of a type T of the equality cases
EqZero(ty) ==
    CASE ty = "int" -> 0
      [] ty \in {"slice", "NonComparableButEquality"} -> NilSlice
      [] ty \in {"ptr", "PtrEquality"} -> NilPtr
      [] ty = "CustomizedEquality" -> [V |-> NilPtr]
      [] ty = "PtrRecvEquality" -> [n |-> 0, tag |-> 0]

\* the operands of Option.Equal
EqOptVals(ty) == {None(EqZero(ty))} \cup {Some(v) : v \in EqVals(ty)}

\* the operands of Und.Equal
EqUnds(ty) ==
    {Undefined(EqZero(ty)), Null(EqZero(ty))} \cup {Defined(v) : v \in EqVals(ty)}

\* the operands of Elastic.Equal: undefined, null, and the defined ones over
\* a nil, an empty or a longer backing sequence whose Some elements hold one
\* value
EqElastics(ty) ==
    {ElasticUndefined, ElasticNull, FromOptions(NilSlice)}
    \cup {FromOptions(MkSlice(s)) :
            s \in UNION {SeqsUpTo({None(EqZero(ty)), Some(x)}, MaxElems) : x \in EqVals(ty)}}

\* the values of T an Option, an Und or an Elastic holds
Held(kind, x) ==
    CASE kind = "Option" -> IF x.some THEN {x.v} ELSE {}
      [] kind = "Und" -> IF IsDefined(x) THEN {Value(Value(x.opt))} ELSE {}
      [] kind = "Elastic" ->
            {Get(NilSlice, x).elems[i].v :
                i \in {j \in 1..ElasticLen(x) : Get(NilSlice, x).elems[j].some}}


\* ------------------------------------------- Elastic: more constructors
\* option.FromPointer(p)
OptionFromPointer(z, p) == IF p.isNil THEN None(z) ELSE Some(p.val)

\* (o Option[T]) Pointer
OptionPointer(o) == IF IsNone(o) THEN NilPtr ELSE PtrTo(o.v)

\* FromPointers (src/elastic/methods.go): ps is a []*T; the options are
\* appended to the len(ps) zero options make() returned
FromPointers(z, ps) ==
    FromOptions(MkSlice([i \in 1..Len(ps.elems) |-> None(z)]
                        \o [i \in 1..Len(ps.elems) |-> OptionFromPointer(z, ps.elems[i])]))

\* FromPointers (src/unnamed/part_001): the options are stored by index
FromPointersVariadic(z, ps) ==
    FromOptions(MkSlice([i \in 1..Len(ps.elems) |-> OptionFromPointer(z, ps.elems[i])]))

\* the []*T values drawn as inputs
PtrSlices(ty) == {NilSlice} \cup {MkSlice(s) : s \in SeqsUpTo(TPtrs(ty), MaxElems)}

\* --------------------------------------------------- Elastic: accessors
\* the Option[T] values a failed Option.UnmarshalJSON leaves in a None
StaleNones(ty) ==
    {OptionUnmarshalJSON(ty, None(Zero(ty)), d).o :
        d \in {x \in FixedInputs : OptionUnmarshalJSON(ty, None(Zero(ty)), x).err # NoErr}}

\* the Options[T] handed to FromOptions before an accessor is called: any
\* sequence of None and Some, and the sequences of one Option[T] a failed
\* decode was applied to
AccessOptions(ty) ==
    OptionsVals(ty) \cup {MkSlice(<<o>>) : o \in StaleNones(ty)}

\* (e Elastic[T]) Value
ElasticValue(z, e) ==
    IF IsDefined(e) /\ Len(Get(NilSlice, e).elems) > 0
    THEN Value(Get(NilSlice, e).elems[1])
    ELSE z

\* (e Elastic[T]) Values
ElasticValues(e) ==
    IF ~IsDefined(e) THEN NilSlice
    ELSE MkSlice([i \in 1..Len(Get(NilSlice, e).elems) |-> Value(Get(NilSlice, e).elems[i])])

\* (e Elastic[T]) Pointer
ElasticPointer(e) ==
    IF IsDefined(e) /\ Len(Get(NilSlice, e).elems) > 0 /\ IsSome(Get(NilSlice, e).elems[1])
    THEN PtrTo(Value(Get(NilSlice, e).elems[1]))
    ELSE NilPtr

\* (e Elastic[T]) Pointers
ElasticPointers(e) ==
    IF ~IsDefined(e) THEN NilSlice
    ELSE MkSlice([i \in 1..Len(Get(NilSlice, e).elems) |-> OptionPointer(Get(NilSlice, e).elems[i])])

\* the accessors
Accessors == {"Value", "Values", "Pointer", "Pointers", "Len"}

\* what accessor a returns on e
Access(a, z, e) ==
    CASE a = "Value" -> ElasticValue(z, e)
      [] a = "Values" -> ElasticValues(e)
      [] a = "Pointer" -> ElasticPointer(e)
      [] a = "Pointers" -> ElasticPointers(e)
      [] a = "Len" -> ElasticLen(e)

\* ---------------------------------------------------- Option: combinators
\* (o Option[T]) And
And(z, o, u) == IF IsSome(o) THEN u ELSE None(z)

\* (o Option[T]) Or
Or(o, u) == IF IsSome(o) THEN o ELSE u

\* (o Option[T]) Xor
Xor(z, o, u) ==
    IF IsSome(o) /\ IsNone(u) THEN o
    ELSE IF IsNone(o) /\ IsSome(u) THEN u
    ELSE None(z)

\* (o Option[T]) Filter, pred returning keep
Filter(z, o, keep) == IF IsSome(o) /\ keep THEN o ELSE None(z)

\* MapOption(o, f), f returning fv
MapOption(z, o, fv) == IF IsSome(o) THEN Some(fv) ELSE None(z)

\* the combinators that return an Option[T]
Combinators == {"And", "Or", "Xor", "Filter", "Map"}

\* o.And(p), o.Or(p), o.Xor(p), o.Filter(pred), o.Map(f): p is the argument,
\* keep what pred returns, fv what f returns
Combine(c, z, o, p, keep, fv) ==
    CASE c = "And" -> And(z, o, p)
      [] c = "Or" -> Or(o, p)
      [] c = "Xor" -> Xor(z, o, p)
      [] c = "Filter" -> Filter(z, o, keep)
      [] c = "Map" -> MapOption(z, o, fv)

\* ------------------------------------------ Elastic: backing arrays
\* An Options[T] is a slice header: the backing array it points into (0 for
\* a nil slice), its length and its capacity.  The backing arrays are kept
\* in a sequence as; an array has one cell per unit of capacity.  An Elastic
\* is its state st and the header s of its Options[T]; copying an Elastic
\* copies the header and shares the array.
MaxCalls == 4

\* the Elastic values of a program: e and a shallow copy of it
Handles == {"e", "copy"}

NilHeader == [arr |-> 0, len |-> 0, cap |-> 0]

\* the elements of the slice s
SliceElems(as, s) == IF s.arr = 0 THEN <<>> ELSE SubSeq(as[s.arr], 1, s.len)

\* a slice literal or make(len): a new array of exactly its elements
Allocated(as, elems) ==
    [as |-> Append(as, elems),
     s |-> [arr |-> Len(as) + 1, len |-> Len(elems), cap |-> Len(elems)]]

\* vv[:len(vv):len(vv)]
Capped(s) == [s EXCEPT !.cap = s.len]

\* the capacity of the array append allocates when needed elements do not
\* fit into oldcap (runtime.growslice below 256 elements; no size class
\* rounds a capacity of up to 8 Option[int] up)
GrowCap(oldcap, needed) == IF needed > 2 * oldcap THEN needed ELSE 2 * oldcap

\* append(s, o) when the capacity does not suffice: a new array holding the
\* elements of s, then o, then zero values up to the new capacity
AppendGrowing(as, s, o, z) ==
    [as |-> Append(as, SliceElems(as, s) \o <<o>>
                       \o [i \in 1..(GrowCap(s.cap, s.len + 1) - s.len - 1) |-> None(z)]),
     s |-> [arr |-> Len(as) + 1, len |-> s.len + 1,
            cap |-> GrowCap(s.cap, s.len + 1)]]

\* append(s, o) when the capacity suffices: o is written behind the
\* elements of s into the array s points into
AppendInPlace(as, s, o) ==
    [as |-> [as EXCEPT ![s.arr][s.len + 1] = o],
     s |-> [s EXCEPT !.len = s.len + 1]]

\* append(s, o)
AppendOne(as, s, o, z) ==
    IF s.len + 1 <= s.cap THEN AppendInPlace(as, s, o)
    ELSE AppendGrowing(as, s, o, z)

\* Elastic[T]{}, Undefined, Null
HeapUndefined == [st |-> "undefined", s |-> NilHeader]

HeapNull == [st |-> "null", s |-> NilHeader]

\* FromOptions(s)
HeapDefined(s) == [st |-> "defined", s |-> s]

\* len(o.inner().Value())
InnerLen(x) == IF x.st = "defined" THEN x.s.len ELSE 0

\* the elements x holds
HeldElems(as, x) == IF x.st = "defined" THEN SliceElems(as, x.s) ELSE <<>>

\* Elastic.Map: what it hands to f.  o is e.inner() unwrapped: None when x
\* is undefined, Some(None) when null, Some(Some(s)) when defined.
MapView(x) ==
    IF x.st # "undefined" THEN x                \* if !o.IsNone() { return o }
    ELSE IF x.st # "defined" THEN x             \* if v.IsNone() { return o }
    ELSE [x EXCEPT !.s = Capped(x.s)]

\* Elastic.Map(f) with the f of UnmarshalXML: on a defined value f appends
\* o to the slice it is handed, otherwise it returns what it is handed
MapAppending(as, view, o, z) ==
    IF view.st = "defined"
    THEN [as |-> AppendOne(as, view.s, o, z).as,
          x |-> HeapDefined(AppendOne(as, view.s, o, z).s)]
    ELSE [as |-> as, x |-> view]

\* xml.Decoder.DecodeElement(&t, &start) on the nil t: one element is
\* appended to t and decoded
DecodedT(as, o) == Allocated(as, <<o>>)

\* mutant of ElasticUnmarshalXML: the decoded elements replace the held ones
ElasticUnmarshalXMLReplacing(as, x, o, z) ==
    [as |-> DecodedT(as, o).as, x |-> HeapDefined(DecodedT(as, o).s)]

\* (o *Elastic[T]) UnmarshalXML when DecodeElement decoded o: the arrays
\* and the receiver afterwards
ElasticUnmarshalXML(as, x, o, z) ==
    IF InnerLen(x) = 0
    THEN [as |-> DecodedT(as, o).as, x |-> HeapDefined(DecodedT(as, o).s)]
    ELSE MapAppending(as, MapView(x), o, z)

\* what an Elastic starts from, as Undefined, Null, FromOptions(nil),
\* FromOptions of an empty slice or FromValue return it: the arrays, then
\* the Elastic
HeapStarts ==
    {<<<<>>, HeapUndefined>>, <<<<>>, HeapNull>>, <<<<>>, HeapDefined(NilHeader)>>}
    \cup {<<Allocated(<<>>, s).as, HeapDefined(Allocated(<<>>, s).s)>> :
            s \in SeqsUpTo({Some(v) : v \in Ints}, 1)}

\* ------------------------------------------------- struct-metadata cache
\* The container types of the cache race: RaceTestA and RaceTestB hold one
\* presence-typed field Foo; RaceTestC also embeds ErroneousEmbedded, a type
\* with its own MarshalJSON, so its metadata cannot be derived.
CacheTypes == {"RaceTestA", "RaceTestB", "RaceTestC"}

\* the goroutines calling UnmarshalFieldsJSON
NCallers == 3

Callers == 1..NCallers

\* the disciplines the design allows for the cache: a double-checked lookup
\* under a lock, or an atomic publish of an immutable snapshot
Disciplines == {"lock", "atomic"}

\* the texts decoded: {"Foo":"123"} and {}
CacheInputs == {"withFoo", "empty"}

\* "123"
FooValue == 123

\* no metadata
NoEntry == [present |-> FALSE, type |-> "", id |-> 0, fields |-> <<>>, complete |-> FALSE]

\* the metadata of t under construction by build number id: no field yet
PartEntry(t, id) ==
    [present |-> TRUE, type |-> t, id |-> id, fields |-> <<>>, complete |-> FALSE]

\* the metadata of t as build number id completes it
FullEntry(t, id) ==
    [present |-> TRUE, type |-> t, id |-> id, fields |-> <<"Foo">>, complete |-> TRUE]

\* the error of a type whose metadata cannot be derived
BuildError(t) == [kind |-> "metadata", value |-> "", type |-> t]

\* t's metadata can be derived
Derivable(t) == t # "RaceTestC"

\* a build that derives metadata for every type, the embedded marshaler
\* unnoticed
BuildMetaUnchecked(t, id) == [err |-> NoErr, entry |-> FullEntry(t, id)]

\* the end of build number id of t's metadata
BuildMeta(t, id) ==
    IF Derivable(t) THEN [err |-> NoErr, entry |-> FullEntry(t, id)]
    ELSE [err |-> BuildError(t), entry |-> NoEntry]

\* a publish that stores over the entry already there
PublishOverwriting(cur, local) == local

\* the publish: the first result stays, a later one is discarded
Publish(cur, local) == IF cur.present THEN cur ELSE local

\* a second lookup that misses whatever the cache holds
RecheckMissing(cur) == NoEntry

\* the second lookup, made under the lock
Recheck(cur) == cur

\* F() after decoding the text by the metadata entry: Foo's value when the
\* text holds the field, the zero value of an undefined field otherwise
DecodeFields(entry, input) ==
    IF input = "withFoo" /\ entry.fields = <<"Foo">> THEN FooValue ELSE 0

\* a goroutine that has not called yet
IdleCaller ==
    [pc |-> "idle", type |-> "", input |-> "", local |-> NoEntry,
     seen |-> NoEntry, err |-> NoErr, val |-> 0]

\* ------------------------------------------------------------------- state
VARIABLES
    ty,     \* the type parameter T of the run
    u,      \* an Und[T]
    e,      \* an Elastic[T]
    op,     \* the operation that ran last
    data,   \* the text the last MarshalJSON returned or the last decode was given
    err,    \* the error the last operation returned
    hist,   \* how the value under test was last written: how is "zero" (the
            \* zero value, never written), "assigned" (by the constructor or
            \* method by, given arg) or "decoded" (by a successful decode)
    src,    \* when data is a text MarshalJSON returned: the value encoded (v)
            \* and how it had been written (hist)
    lhs,    \* receiver of the last Equal
    rhs,    \* argument of the last Equal
    res     \* what the last Equal did: [panic, ret]

VARIABLES
    discipline, \* the discipline of the metadata cache
    cache,      \* the metadata cache: the entry published for each type
    lock,       \* the caller holding the cache's lock, 0 when free
    callers,    \* each caller's position (pc), type, text, the entry it is
                \* building (local), the entry it obtained (seen), its result
    builds,     \* the metadata builds started, per type
    pubs        \* the times the cache's entry was written, per type

VARIABLES
    option      \* an Option[T]

VARIABLES
    arrays,     \* the backing arrays allocated so far
    elastics,   \* the Elastic values e and copy: state and slice header
    xml         \* the UnmarshalXML calls made: the number of calls, the last
                \* call (receiver who, decoded element last, success ok, the
                \* receiver's elements before it prev, whether it went
                \* through Map mapped and the slice Map handed to f passed),
                \* the state e started in, the elements decoded into e so
                \* far cat, and the value each Elastic holds when no call on
                \* another Elastic touches it exp

\* the values under test of the codecs and of Equal
codec == <<ty, u, e, op, data, err, hist, src, lhs, rhs, res>>

\* the further values under test
heap == <<arrays, elastics, xml>>

more == <<option, heap>>

\* the further values under test, and the metadata cache and its callers
rest == <<more, discipline, cache, lock, callers, builds, pubs>>

\* what is expected of an Elastic: its state and its elements
Expected(st, elems) == [st |-> st, elems |-> elems]

\* no UnmarshalXML call was made on e, which starts as x over arrays as
XmlStart(as, x) ==
    [calls |-> 0, ok |-> FALSE, who |-> "", last |-> None(0), prev |-> <<>>,
     mapped |-> FALSE, passed |-> NilHeader,
     start |-> x.st, cat |-> <<>>,
     exp |-> [h \in Handles |->
                IF h = "e" THEN Expected(x.st, HeldElems(as, x))
                ELSE Expected("undefined", <<>>)]]

\* no array is allocated, e and copy are Elastic[T]{}
HeapIdle ==
    /\ arrays = <<>>
    /\ elastics = [h \in Handles |-> HeapUndefined]
    /\ xml = XmlStart(<<>>, HeapUndefined)

\* no further value is under test
MoreIdle ==
    /\ option = None(0)
    /\ HeapIdle

vars == <<codec, rest>>

\* the cache is empty and nobody calls
CacheIdle ==
    /\ discipline = "lock"
    /\ cache = [t \in CacheTypes |-> NoEntry]
    /\ lock = 0
    /\ callers = [c \in Callers |-> IdleCaller]
    /\ builds = [t \in CacheTypes |-> 0]
    /\ pubs = [t \in CacheTypes |-> 0]

\* only a codec value is under test
RestIdle ==
    /\ MoreIdle
    /\ CacheIdle

Hist(how, by, arg) == [how |-> how, by |-> by, arg |-> arg]

NoSrc == [valid |-> FALSE, v |-> 0, hist |-> Hist("zero", "zero", 0)]

\* nothing has been encoded, decoded or compared yet
InitIdle ==
    /\ data = <<>>
    /\ err = NoErr
    /\ src = NoSrc
    /\ lhs = 0
    /\ rhs = 0
    /\ res = Ret(FALSE)

\* the value under test is v, the result of by(arg)
Built(x, by, arg, v) ==
    /\ x = v
    /\ op = by
    /\ hist = Hist(IF by = "zero" THEN "zero" ELSE "assigned", by, arg)

\* an Und[T] as declared (the zero value) or as a constructor returns it
Init ==
    /\ ty \in JsonTypes
    /\ \/ Built(u, "zero", 0, Undefined(Zero(ty)))
       \/ Built(u, "Undefined", 0, Undefined(Zero(ty)))
       \/ Built(u, "Null", 0, Null(Zero(ty)))
       \/ \E t \in TVals(ty) : Built(u, "Defined", t, Defined(t))
       \/ \E p \in TPtrs(ty) : Built(u, "FromPointer", p, FromPointer(Zero(ty), p))
       \/ \E o \in NestedOptions(ty) : Built(u, "FromOption", o, FromOption(o))
    /\ e = ElasticUndefined
    /\ InitIdle
    /\ RestIdle

\* u = u.Map(f)
CallMap ==
    \E f \in MapFns :
        /\ u' = Map(f, Zero(ty), u)
        /\ op' = "Map"
        /\ data' = <<>>
        /\ err' = NoErr
        /\ src' = NoSrc
        /\ hist' = Hist("assigned", "Map", f)
        /\ UNCHANGED <<ty, e, lhs, rhs, res>>
        /\ UNCHANGED rest

\* data, err = u.MarshalJSON()
CallMarshalJSON ==
    LET r == UndMarshalJSON(<<>>, ty, u) IN
    /\ op' = "MarshalJSON"
    /\ data' = r.data
    /\ err' = r.err
    /\ src' = [valid |-> TRUE, v |-> u, hist |-> hist]
    /\ UNCHANGED <<ty, u, e, hist, lhs, rhs, res>>
    /\ UNCHANGED rest

\* the texts a decode may be given: the fixed ones and the text just marshaled
DecodeInputs == FixedInputs \cup (IF src.valid THEN {data} ELSE {})

\* what a decode of d that returned rerr leaves in op, data, err, src, hist
Decoded(name, d, rerr) ==
    /\ op' = name
    /\ data' = d
    /\ err' = rerr
    /\ src' = IF src.valid /\ d = data THEN src ELSE NoSrc
    /\ hist' = IF rerr = NoErr THEN Hist("decoded", name, 0) ELSE hist

\* err = u.UnmarshalJSON(d)
CallUnmarshalJSON ==
    \E d \in DecodeInputs :
        LET r == UndUnmarshalJSON(ty, u, d) IN
        /\ u' = r.u
        /\ Decoded("UnmarshalJSON", d, r.err)
        /\ UNCHANGED <<ty, e, lhs, rhs, res>>
        /\ UNCHANGED rest

\* err = u.UnmarshalJSONV2(dec, opts), dec reading d
CallUnmarshalJSONV2 ==
    \E d \in DecodeInputs :
        LET r == UndUnmarshalJSONV2(ty, u, d) IN
        /\ u' = r.u
        /\ Decoded("UnmarshalJSONV2", d, r.err)
        /\ UNCHANGED <<ty, e, lhs, rhs, res>>
        /\ UNCHANGED rest

Next ==
    \/ CallMap
    \/ CallMarshalJSON
    \/ CallUnmarshalJSON
    \/ CallUnmarshalJSONV2

Spec == Init /\ [][Next]_vars

\* ------------------------------------------------------------ Und: claims
IsDecode == op \in {"UnmarshalJSON", "UnmarshalJSONV2"}

\* C1: every Und built by the zero value, a constructor, Map or a successful
\* decode is in exactly one of the states undefined, null, defined, and
\* IsZero holds exactly when IsUndefined does.
C1_ExactlyOneState ==
    /\ IsUndefined(u) \/ IsNull(u) \/ IsDefined(u)
    /\ ~(IsUndefined(u) /\ IsNull(u))
    /\ ~(IsUndefined(u) /\ IsDefined(u))
    /\ ~(IsNull(u) /\ IsDefined(u))
    /\ IsZero(u) <=> IsUndefined(u)
    /\ op = "zero" => IsZero(u)

C1_Witness ==
    /\ op = "UnmarshalJSON"
    /\ err = NoErr
    /\ IsNull(u)
    /\ ~IsZero(u)

\* C2: a decode (UnmarshalJSON, UnmarshalJSONV2) that returns no error
\* leaves the receiver null or defined: null when the text is the null
\* literal, defined when the text's first token is not null; a value last
\* written by a successful decode is never undefined, whatever failing
\* decodes follow.
C2_DecodeNeverUndefined ==
    /\ hist.how = "decoded" => ~IsUndefined(u)
    /\ (IsDecode /\ err = NoErr) =>
          /\ IsNull(u) \/ IsDefined(u)
          /\ data = NullLit => IsNull(u)
          /\ PeekKind(data) # "n" => IsDefined(u)

C2_Witness ==
    /\ op = "UnmarshalJSONV2"
    /\ err # NoErr
    /\ hist.how = "decoded"
    /\ IsNull(u)

InitElastic ==
    /\ ty \in JsonTypes
    /\ \/ Built(e, "zero", 0, ElasticUndefined)
       \/ Built(e, "Undefined", 0, ElasticUndefined)
       \/ Built(e, "Null", 0, ElasticNull)
       \/ \E o \in OptionsVals(ty) : Built(e, "FromOptions", o, FromOptions(o))
       \/ \E t \in TVals(ty) : Built(e, "FromValue", t, FromValue(t))
       \/ \E p \in TPtrs(ty) : Built(e, "FromPointer", p, ElasticFromPointer(p))
       \/ \E ts \in TSlices(ty) : Built(e, "FromValues", ts, FromValues(ts))
    /\ u = Undefined(Zero(ty))
    /\ InitIdle
    /\ RestIdle

\* data, err = e.MarshalJSON()
CallElasticMarshalJSON ==
    LET r == ElasticMarshalJSON(ty, e) IN
    /\ op' = "MarshalJSON"
    /\ data' = r.data
    /\ err' = r.err
    /\ src' = [valid |-> TRUE, v |-> e, hist |-> hist]
    /\ UNCHANGED <<ty, u, e, hist, lhs, rhs, res>>
    /\ UNCHANGED rest

\* err = e.UnmarshalJSON(d)
CallElasticUnmarshalJSON ==
    \E d \in DecodeInputs :
        LET r == ElasticUnmarshalJSON(ty, e, d) IN
        /\ e' = r.e
        /\ Decoded("UnmarshalJSON", d, r.err)
        /\ UNCHANGED <<ty, u, lhs, rhs, res>>
        /\ UNCHANGED rest

NextElastic ==
    \/ CallElasticMarshalJSON
    \/ CallElasticUnmarshalJSON

SpecElastic == InitElastic /\ [][NextElastic]_vars

\* -------------------------------------------------------- Elastic: claims
\* the backing sequence of a defined Elastic
Elems(x) == Get(NilSlice, x).elems

StartsWithBracket(d) == Len(d) >= 1 /\ d[1] = "["

Text123 == <<"[", "1", ",", "2", ",", "3", "]">>

\* C4: a successful Elastic.UnmarshalJSON, whatever the receiver held: the
\* null literal gives Null; a text that does not start with '[' gives a
\* defined Elastic of exactly one element, the decoded Option[T]; a text
\* starting with '[' that decodes as a sequence of Option[T] gives a defined
\* Elastic holding exactly that sequence ([1,2,3] gives Some(1), Some(2),
\* Some(3)); an Elastic never written is undefined and has length 0.
C4_ScalarOrArray ==
    /\ (op = "UnmarshalJSON" /\ err = NoErr) =>
          /\ data = NullLit => IsNull(e)
          /\ (data # NullLit /\ ~StartsWithBracket(data)) =>
                /\ IsDefined(e)
                /\ ElasticLen(e) = 1
                /\ Elems(e)[1] = UnmarshalOption(ty, data).o
          /\ (StartsWithBracket(data) /\ UnmarshalOptions(ty, data).err = NoErr) =>
                /\ IsDefined(e)
                /\ Get(NilSlice, e) = UnmarshalOptions(ty, data).v
          /\ (data = Text123 /\ ty = "int") => Elems(e) = <<Some(1), Some(2), Some(3)>>
          /\ (data = <<"1">> /\ ty = "int") => Elems(e) = <<Some(1)>>
    /\ (op = "UnmarshalJSON" /\ data = NullLit) => err = NoErr
    /\ hist.how = "zero" => (IsUndefined(e) /\ ElasticLen(e) = 0)

C4_Witness ==
    /\ op = "UnmarshalJSON"
    /\ err = NoErr
    /\ data = Text123
    /\ IsDefined(e)
    /\ ElasticLen(e) = 3

\* C5: when the text starts with '[' and does not decode as a sequence of
\* Option[T], the whole text is decoded as one Option[T]: on success the
\* result is a defined Elastic of that one element and no error; an error
\* is returned only when both decodes fail, and it is the second decode's.
C5_FallbackPolicy ==
    (op = "UnmarshalJSON" /\ StartsWithBracket(data)) =>
        /\ UnmarshalOptions(ty, data).err # NoErr =>
              LET r == UnmarshalOption(ty, data) IN
              /\ r.err = NoErr => (err = NoErr /\ IsDefined(e) /\ Elems(e) = <<r.o>>)
              /\ r.err # NoErr => err = r.err
        /\ err # NoErr =>
              /\ UnmarshalOptions(ty, data).err # NoErr
              /\ UnmarshalOption(ty, data).err # NoErr
        /\ (data = Text123 /\ ty = "slice") =>
              (err = NoErr /\ Elems(e) = <<Some(MkSlice(<<1, 2, 3>>))>>)
        /\ (data = <<"[", "\"", "a", "\"", "]">> /\ ty = "int") =>
              err = TypeError("array", "int")

C5_Witness ==
    /\ op = "UnmarshalJSON"
    /\ data = Text123
    /\ ty = "slice"
    /\ err = NoErr
    /\ ElasticLen(e) = 1

\* C6: Elastic.MarshalJSON returns the null literal for an undefined and for
\* a null Elastic, and for every defined Elastic a JSON array with one
\* token per element of the backing sequence, never the null literal.
C6_DefinedEncodesAsArray ==
    op = "MarshalJSON" =>
        /\ err = NoErr
        /\ ~IsDefined(e) => data = NullLit
        /\ IsDefined(e) =>
              /\ data # NullLit
              /\ ParseJSON(data).ok
              /\ ParseJSON(data).v.k = "array"
              /\ Len(ParseJSON(data).v.es) = ElasticLen(e)

Operand(kind, v) == [kind |-> kind, v |-> v]

\* operands that can exist together
OperandsCoexist(t, kind, a, b) ==
    \A p \in Held(kind, a), q \in Held(kind, b) : Coexist(t, p, q)

\* the receiver and the argument of an Equal yet to run
Operands(kind, a, b) ==
    /\ OperandsCoexist(ty, kind, a, b)
    /\ lhs = Operand(kind, a)
    /\ rhs = Operand(kind, b)

\* a type T of the equality cases and two operands, nothing compared yet
InitEq ==
    /\ ty \in EqTypes
    /\ Built(u, "zero", 0, Undefined(0))
    /\ e = ElasticUndefined
    /\ data = <<>>
    /\ err = NoErr
    /\ src = NoSrc
    /\ res = Ret(FALSE)
    /\ RestIdle
    /\ \/ \E a \in EqOptVals(ty), b \in EqOptVals(ty) : Operands("Option", a, b)
       \/ \E a \in EqUnds(ty), b \in EqUnds(ty) : Operands("Und", a, b)
       \/ \E a \in EqElastics(ty), b \in EqElastics(ty) : Operands("Elastic", a, b)

\* what an Equal that did r leaves behind
Compared(r) ==
    /\ op' = "Equal"
    /\ res' = r
    /\ UNCHANGED <<ty, u, e, data, err, hist, src, lhs, rhs>>
    /\ UNCHANGED rest

\* res = lhs.Equal(rhs) for Option[T] operands
CallOptionEqual ==
    /\ op = "zero"
    /\ lhs.kind = "Option"
    /\ Compared(OptionEqual(<<>>, ty, lhs.v, rhs.v))

\* res = lhs.Equal(rhs) for Und[T] operands
CallUndEqual ==
    /\ op = "zero"
    /\ lhs.kind = "Und"
    /\ Compared(UndEqual(ty, lhs.v, rhs.v))

\* res = lhs.Equal(rhs) for Elastic[T] operands
CallElasticEqual ==
    /\ op = "zero"
    /\ lhs.kind = "Elastic"
    /\ Compared(ElasticEqual(ty, lhs.v, rhs.v))

NextEq ==
    \/ CallOptionEqual
    \/ CallUndEqual
    \/ CallElasticEqual

SpecEq == InitEq /\ [][NextEq]_vars

\* ------------------------------------------------------- equality: claims
\* lhs.Equal(rhs) has run on operands of the kind
Ran(kind) == op = "Equal" /\ lhs.kind = kind

\* undefined, null or defined
StateOf(x) ==
    IF IsUndefined(x) THEN "undefined" ELSE IF IsNull(x) THEN "null" ELSE "defined"

\* the T a defined Und holds
Val(x) == Value(Value(x.opt))

\* defined Elastics of one length whose elements are all Some
AllSome(x, y) ==
    /\ IsDefined(x)
    /\ IsDefined(y)
    /\ ElasticLen(x) = ElasticLen(y)
    /\ \A i \in 1..ElasticLen(x) : Elems(x)[i].some /\ Elems(y)[i].some

\* T has an Equal method, on T or on *T
HasEqual == ty \in {"CustomizedEquality", "NonComparableButEquality",
                    "PtrEquality", "PtrRecvEquality"}

\* C8: Option.Equal returns true for None and None and false when exactly
\* one operand is None; Und.Equal returns true for undefined and undefined
\* and for null and null, false for operands in different states, and for
\* two defined operands does what T's equality does on the held values.
C8_PresenceBeforeValues ==
    /\ Ran("Option") =>
          /\ (~lhs.v.some /\ ~rhs.v.some) => res = Ret(TRUE)
          /\ lhs.v.some # rhs.v.some => res = Ret(FALSE)
    /\ Ran("Und") =>
          /\ (IsUndefined(lhs.v) /\ IsUndefined(rhs.v)) => res = Ret(TRUE)
          /\ (IsNull(lhs.v) /\ IsNull(rhs.v)) => res = Ret(TRUE)
          /\ StateOf(lhs.v) # StateOf(rhs.v) => res = Ret(FALSE)
          /\ (IsDefined(lhs.v) /\ IsDefined(rhs.v)) =>
                res = IF HasEqual THEN UserEqual(ty, Val(lhs.v), Val(rhs.v))
                      ELSE GoEq(ty, Val(lhs.v), Val(rhs.v))

C8_Witness ==
    /\ Ran("Und")
    /\ IsNull(lhs.v)
    /\ IsUndefined(rhs.v)
    /\ res = Ret(FALSE)

\* C9: when both operands hold a value and T or *T has an Equal method,
\* Option.Equal and Und.Equal return what that method returns on the held
\* values, and Elastic.Equal on sequences of one length without None
\* returns whether the method returns true on every pair of elements:
\* true for pointees equal modulo 30 behind different addresses, a result
\* and no panic for a T without ==, true for a pointer T whose pointees are
\* equal behind different addresses.
C9_CustomEqualFirst ==
    /\ (Ran("Option") /\ lhs.v.some /\ rhs.v.some /\ HasEqual) =>
          /\ res = UserEqual(ty, lhs.v.v, rhs.v.v)
          /\ (ty = "CustomizedEquality"
                /\ lhs.v.v.V.val = rhs.v.v.V.val + Modulus) => res = Ret(TRUE)
          /\ (ty = "PtrEquality" /\ lhs.v.v.val = rhs.v.v.val) => res = Ret(TRUE)
          /\ ~res.panic
    /\ (Ran("Und") /\ IsDefined(lhs.v) /\ IsDefined(rhs.v) /\ HasEqual) =>
          res = UserEqual(ty, Val(lhs.v), Val(rhs.v))
    /\ (Ran("Elastic") /\ AllSome(lhs.v, rhs.v) /\ HasEqual) =>
          res = Ret(\A i \in 1..ElasticLen(lhs.v) :
                       UserEqual(ty, Elems(lhs.v)[i].v, Elems(rhs.v)[i].v).ret)

C9_Witness ==
    /\ Ran("Elastic")
    /\ ty = "CustomizedEquality"
    /\ AllSome(lhs.v, rhs.v)
    /\ ElasticLen(lhs.v) = MaxElems
    /\ Elems(lhs.v)[1].v.V.val = Modulus
    /\ Elems(rhs.v)[1].v.V.val = 0
    /\ res = Ret(TRUE)

CodecIdle ==
    /\ ty = "int"
    /\ Built(u, "zero", 0, Undefined(0))
    /\ e = ElasticUndefined
    /\ InitIdle

\* an empty cache under either discipline, no caller started
InitCache ==
    /\ CodecIdle
    /\ MoreIdle
    /\ discipline \in Disciplines
    /\ cache = [t \in CacheTypes |-> NoEntry]
    /\ lock = 0
    /\ callers = [c \in Callers |-> IdleCaller]
    /\ builds = [t \in CacheTypes |-> 0]
    /\ pubs = [t \in CacheTypes |-> 0]

\* caller c becomes r
Becomes(c, r) == callers' = [callers EXCEPT ![c] = r]

\* the lock after c releases it, if c holds it
Released(c) == IF lock = c THEN 0 ELSE lock

\* c calls UnmarshalFieldsJSON(text, &t) for a t of type T; the text is
\* drawn where the call first reads it, in Use
Begin(c) ==
    /\ callers[c].pc = "idle"
    /\ \E t \in CacheTypes :
          Becomes(c, [callers[c] EXCEPT !.pc = "load", !.type = t])
    /\ UNCHANGED <<codec, more, discipline, cache, lock, builds, pubs>>

\* the first lookup, without the lock
Load(c) ==
    /\ callers[c].pc = "load"
    /\ IF cache[callers[c].type].present
       THEN Becomes(c, [callers[c] EXCEPT !.pc = "use", !.seen = cache[callers[c].type]])
       ELSE Becomes(c, [callers[c] EXCEPT
                         !.pc = IF discipline = "lock" THEN "acquire" ELSE "build"])
    /\ UNCHANGED <<codec, more, discipline, cache, lock, builds, pubs>>

\* c takes the lock
Acquire(c) ==
    /\ callers[c].pc = "acquire"
    /\ lock = 0
    /\ lock' = c
    /\ Becomes(c, [callers[c] EXCEPT !.pc = "recheck"])
    /\ UNCHANGED <<codec, more, discipline, cache, builds, pubs>>

\* what c does with the entry cur its second lookup found
Rechecked(c, cur) ==
    IF cur.present
    THEN /\ Becomes(c, [callers[c] EXCEPT !.pc = "use", !.seen = cur])
         /\ lock' = Released(c)
    ELSE /\ Becomes(c, [callers[c] EXCEPT !.pc = "build"])
         /\ UNCHANGED lock

\* the second lookup, under the lock
LookAgain(c) ==
    /\ callers[c].pc = "recheck"
    /\ Rechecked(c, Recheck(cache[callers[c].type]))
    /\ UNCHANGED <<codec, more, discipline, cache, builds, pubs>>

\* c starts to build the metadata of its type
BuildStart(c) ==
    /\ callers[c].pc = "build"
    /\ builds' = [builds EXCEPT ![callers[c].type] = @ + 1]
    /\ Becomes(c, [callers[c] EXCEPT
                     !.pc = "derive",
                     !.local = PartEntry(callers[c].type, builds[callers[c].type] + 1)])
    /\ UNCHANGED <<codec, more, discipline, cache, lock, pubs>>

\* what c does with the outcome r of its build
Derived(c, r) ==
    IF r.err # NoErr
    THEN /\ Becomes(c, [callers[c] EXCEPT !.pc = "done", !.local = NoEntry, !.err = r.err])
         /\ lock' = Released(c)
    ELSE /\ Becomes(c, [callers[c] EXCEPT !.pc = "publish", !.local = r.entry])
         /\ UNCHANGED lock

\* c's build ends: the metadata is complete, or cannot be derived and the
\* call returns the error
BuildFinish(c) ==
    /\ callers[c].pc = "derive"
    /\ Derived(c, BuildMeta(callers[c].type, callers[c].local.id))
    /\ UNCHANGED <<codec, more, discipline, cache, builds, pubs>>

\* c publishes what it built and goes on with the entry the cache holds
Published(c, t, entry) ==
    /\ cache' = [cache EXCEPT ![t] = entry]
    /\ pubs' = [pubs EXCEPT ![t] = IF entry = cache[t] THEN @ ELSE @ + 1]
    /\ Becomes(c, [callers[c] EXCEPT !.pc = "use", !.local = NoEntry, !.seen = entry])
    /\ lock' = Released(c)

PublishEntry(c) ==
    /\ callers[c].pc = "publish"
    /\ Published(c, callers[c].type, Publish(cache[callers[c].type], callers[c].local))
    /\ UNCHANGED <<codec, more, discipline, builds>>

\* c decodes its text by the entry it obtained and returns
Use(c) ==
    /\ callers[c].pc = "use"
    /\ \E i \in CacheInputs :
          Becomes(c, [callers[c] EXCEPT
                        !.pc = "done",
                        !.input = i,
                        !.val = DecodeFields(callers[c].seen, i)])
    /\ UNCHANGED <<codec, more, discipline, cache, lock, builds, pubs>>

NextCache ==
    \E c \in Callers :
        \/ Begin(c)
        \/ Load(c)
        \/ Acquire(c)
        \/ LookAgain(c)
        \/ BuildStart(c)
        \/ BuildFinish(c)
        \/ PublishEntry(c)
        \/ Use(c)

SpecCache == InitCache /\ [][NextCache]_vars

\* ------------------------------------------------ metadata cache: claims
\* c has returned
IsDone(c) == callers[c].pc = "done"

\* c and d made their first accesses to t together and both returned
RacedOn(t, c, d) ==
    /\ c # d
    /\ IsDone(c)
    /\ IsDone(d)
    /\ callers[c].type = t
    /\ callers[d].type = t
    /\ builds[t] >= 2

\* C11: the entry a caller obtains is fully built and is the entry the
\* cache holds for its type, so all callers of a type obtain the same one;
\* an entry in the cache is fully built; once an entry is in the cache no
\* step changes or replaces it.
C11_FullyBuiltIdenticalStable ==
    /\ [](\A c \in Callers :
             callers[c].seen.present =>
                /\ callers[c].seen.complete
                /\ callers[c].seen = cache[callers[c].type])
    /\ [](\A t \in CacheTypes :
             cache[t].present => (cache[t].complete /\ cache[t].type = t))
    /\ [][\A t \in CacheTypes : cache[t].present => cache'[t] = cache[t]]_vars

C11_Witness ==
    \E c \in Callers, d \in Callers :
        /\ RacedOn("RaceTestA", c, d)
        /\ callers[c].seen.present
        /\ callers[c].seen = callers[d].seen

C13_FailureIsolation ==
    /\ \A c \in Callers :
          IsDone(c) =>
             IF Derivable(callers[c].type)
             THEN /\ callers[c].err = NoErr
                  /\ callers[c].val = IF callers[c].input = "withFoo" THEN FooValue ELSE 0
             ELSE callers[c].err # NoErr
    /\ \A t \in CacheTypes : ~Derivable(t) => ~cache[t].present

C13_Witness ==
    \E c \in Callers, d \in Callers :
        /\ RacedOn("RaceTestC", c, d)
        /\ callers[c].err # NoErr
        /\ \E b \in Callers :
              /\ IsDone(b)
              /\ callers[b].type = "RaceTestA"
              /\ callers[b].val = FooValue

\* ------------------------------------ Elastic accessors: state machine
\* an Elastic[T] as declared or as a constructor returns it
InitAccess ==
    /\ ty \in JsonTypes
    /\ \/ Built(e, "zero", 0, ElasticUndefined)
       \/ Built(e, "Undefined", 0, ElasticUndefined)
       \/ Built(e, "Null", 0, ElasticNull)
       \/ \E o \in AccessOptions(ty) : Built(e, "FromOptions", o, FromOptions(o))
       \/ \E t \in TVals(ty) : Built(e, "FromValue", t, FromValue(t))
       \/ \E p \in TPtrs(ty) : Built(e, "FromPointer", p, ElasticFromPointer(p))
       \/ \E ts \in TSlices(ty) : Built(e, "FromValues", ts, FromValues(ts))
       \/ \E ps \in PtrSlices(ty) :
             Built(e, "FromPointers", ps, FromPointers(Zero(ty), ps))
       \/ \E ps \in PtrSlices(ty) :
             Built(e, "FromPointersVariadic", ps, FromPointersVariadic(Zero(ty), ps))
    /\ u = Undefined(Zero(ty))
    /\ InitIdle
    /\ RestIdle

\* res = e.Value(), e.Values(), e.Pointer(), e.Pointers() or e.Len()
CallAccessor ==
    /\ op \notin Accessors
    /\ \E a \in Accessors :
          /\ op' = a
          /\ res' = Ret(Access(a, Zero(ty), e))
    /\ UNCHANGED <<ty, u, e, data, err, hist, src, lhs, rhs>>
    /\ UNCHANGED rest

NextAccess == CallAccessor

SpecAccess == InitAccess /\ [][NextAccess]_vars

\* --------------------------------------------- Elastic accessors: claims
\* the first element of e is there and is Some
FirstIsSome(x) == IsDefined(x) /\ ElasticLen(x) > 0 /\ Elems(x)[1].some

\* C14: Value returns the first element's value and Pointer a pointer to
\* it when e is defined, not empty and its first element is Some, and the
\* zero value and nil otherwise; Values and Pointers return nil when e is
\* not defined and otherwise one entry per element, the zero value and nil
\* for a None; Len is 0 when e is null or undefined.
C14_AccessorsProject ==
    /\ op = "Value" =>
          res.ret = IF FirstIsSome(e) THEN Elems(e)[1].v ELSE Zero(ty)
    /\ op = "Pointer" =>
          res.ret = IF FirstIsSome(e) THEN PtrTo(Elems(e)[1].v) ELSE NilPtr
    /\ op = "Values" =>
          IF ~IsDefined(e) THEN res.ret = NilSlice
          ELSE /\ ~res.ret.isNil
               /\ Len(res.ret.elems) = ElasticLen(e)
               /\ \A i \in 1..ElasticLen(e) :
                     res.ret.elems[i] = IF Elems(e)[i].some THEN Elems(e)[i].v ELSE Zero(ty)
    /\ op = "Pointers" =>
          IF ~IsDefined(e) THEN res.ret = NilSlice
          ELSE /\ ~res.ret.isNil
               /\ Len(res.ret.elems) = ElasticLen(e)
               /\ \A i \in 1..ElasticLen(e) :
                     res.ret.elems[i] = IF Elems(e)[i].some THEN PtrTo(Elems(e)[i].v) ELSE NilPtr
    /\ (op = "Len" /\ ~IsDefined(e)) => res.ret = 0

\* C17: FromPointers(ps), in either version, is a defined Elastic of
\* exactly len(ps) elements, element i being None when ps[i] is nil and
\* Some(*ps[i]) otherwise.
C17_FromPointersElementwise ==
    hist.by \in {"FromPointers", "FromPointersVariadic"} =>
        /\ IsDefined(e)
        /\ ElasticLen(e) = Len(hist.arg.elems)
        /\ \A i \in 1..Len(hist.arg.elems) :
              /\ i <= ElasticLen(e)
              /\ Elems(e)[i] = IF hist.arg.elems[i].isNil THEN None(Zero(ty))
                               ELSE Some(hist.arg.elems[i].val)

\* ------------------------------------------------ Option: state machine
\* an Option[T] as declared (the zero value)
InitOption ==
    /\ ty \in JsonTypes
    /\ u = Undefined(Zero(ty))
    /\ e = ElasticUndefined
    /\ op = "zero"
    /\ hist = Hist("zero", "zero", 0)
    /\ InitIdle
    /\ option = None(Zero(ty))
    /\ HeapIdle
    /\ CacheIdle

\* what a step on option leaves in the other variables
OptionStep(name, d, rerr, r) ==
    /\ op' = name
    /\ data' = d
    /\ err' = rerr
    /\ res' = r
    /\ UNCHANGED <<ty, u, e, hist, src, lhs, rhs>>
    /\ UNCHANGED <<heap, discipline, cache, lock, callers, builds, pubs>>

\* option = Some(v)
AssignSome ==
    \E v \in TVals(ty) :
        /\ option' = Some(v)
        /\ OptionStep("Some", <<>>, NoErr, res)

\* option = None[T]()
AssignNone ==
    /\ option' = None(Zero(ty))
    /\ OptionStep("None", <<>>, NoErr, res)

\* option = option.And(p), .Or(p), .Xor(p), .Filter(pred) or .Map(f)
CallCombinator ==
    \/ \E c \in {"And", "Or", "Xor"}, p \in OptVals(ty) :
          /\ option' = Combine(c, Zero(ty), option, p, FALSE, Zero(ty))
          /\ OptionStep(c, <<>>, NoErr, res)
    \/ \E keep \in BOOLEAN :
          /\ option' = Combine("Filter", Zero(ty), option, None(Zero(ty)), keep, Zero(ty))
          /\ OptionStep("Filter", <<>>, NoErr, res)
    \/ \E fv \in TVals(ty) :
          /\ option' = Combine("Map", Zero(ty), option, None(Zero(ty)), FALSE, fv)
          /\ OptionStep("Map", <<>>, NoErr, res)

\* err = option.UnmarshalJSON(d)
CallOptionUnmarshalJSON ==
    \E d \in FixedInputs :
        /\ option' = OptionUnmarshalJSON(ty, option, d).o
        /\ OptionStep("UnmarshalJSON", d, OptionUnmarshalJSON(ty, option, d).err, res)

\* res = option.Value()
CallOptionValue ==
    /\ option' = option
    /\ OptionStep("Value", <<>>, NoErr, Ret(Value(option)))

NextOption ==
    \/ AssignSome
    \/ AssignNone
    \/ CallCombinator
    \/ CallOptionUnmarshalJSON
    \/ CallOptionValue

SpecOption == InitOption /\ [][NextOption]_vars

\* ------------------------------------------------------- Option: claims
\* C16: Value returns the held value when the Option is Some and the zero
\* value of T when it is None, whatever Some, None, combinator and
\* UnmarshalJSON calls, failed ones too, came before; UnmarshalJSON of the
\* null literal leaves None holding the zero value.
C16_ValueTotal ==
    /\ op = "Value" =>
          res = Ret(IF option.some THEN option.v ELSE Zero(ty))
    /\ (op = "UnmarshalJSON" /\ data = NullLit) =>
          (err = NoErr /\ option = None(Zero(ty)))

\* ------------------------------------------ Elastic XML: state machine
\* e as a constructor returns it, copy as declared
InitXML ==
    /\ CodecIdle
    /\ option = None(0)
    /\ CacheIdle
    /\ \E a \in HeapStarts :
          /\ arrays = a[1]
          /\ elastics = [h \in Handles |-> IF h = "e" THEN a[2] ELSE HeapUndefined]
          /\ xml = XmlStart(a[1], a[2])

\* what a step on the Elastic values leaves alone
XMLFrame == UNCHANGED <<codec, option, discipline, cache, lock, callers, builds, pubs>>

\* the record of a call on h that decoded o
XMLDecoded(h, o) ==
    [xml EXCEPT !.calls = xml.calls + 1,
                !.ok = TRUE,
                !.who = h,
                !.last = o,
                !.prev = HeldElems(arrays, elastics[h]),
                !.mapped = InnerLen(elastics[h]) # 0,
                !.passed = MapView(elastics[h]).s,
                !.cat = IF h = "e" THEN xml.cat \o <<o>> ELSE xml.cat,
                !.exp[h] = Expected("defined", xml.exp[h].elems \o <<o>>)]

\* the elements DecodeElement decodes: an element of the text holds a value
XMLElems == {Some(v) : v \in TVals(ty)}

\* err = h.UnmarshalXML(d, start), DecodeElement decoding o: err is nil
UnmarshalXMLDecodes(h) ==
    /\ xml.calls < MaxCalls
    /\ \E o \in XMLElems :
          /\ arrays' = ElasticUnmarshalXML(arrays, elastics[h], o, Zero(ty)).as
          /\ elastics' = [elastics EXCEPT
                            ![h] = ElasticUnmarshalXML(arrays, elastics[h], o, Zero(ty)).x]
          /\ xml' = XMLDecoded(h, o)
    /\ XMLFrame

\* err = h.UnmarshalXML(d, start), DecodeElement failing: err is returned
\* before h is assigned
UnmarshalXMLFails(h) ==
    /\ xml.calls < MaxCalls
    /\ xml' = [xml EXCEPT !.calls = xml.calls + 1, !.ok = FALSE, !.who = h]
    /\ UNCHANGED <<arrays, elastics>>
    /\ XMLFrame

NextXML ==
    \/ UnmarshalXMLDecodes("e")
    \/ UnmarshalXMLFails("e")

SpecXML == InitXML /\ [][NextXML]_vars

\* copy := e
CopyElastic ==
    /\ elastics["copy"] # elastics["e"]
    /\ elastics' = [elastics EXCEPT !["copy"] = elastics["e"]]
    /\ xml' = [xml EXCEPT !.exp["copy"] = xml.exp["e"]]
    /\ UNCHANGED arrays
    /\ XMLFrame

NextAlias ==
    \/ \E h \in Handles : UnmarshalXMLDecodes(h)
    \/ CopyElastic

SpecAlias == InitXML /\ [][NextAlias]_vars

\* ------------------------------------------------- Elastic XML: claims
\* C15: UnmarshalXML merges.  After successful calls on an e that started
\* undefined, e is defined and holds the decoded elements in call order;
\* after a successful call e is defined and holds the elements it held
\* before the call, unchanged and in place, followed by the decoded one
\* (the decoded one alone when it held none: undefined, null or empty).
C15_XMLMerges ==
    /\ (xml.start = "undefined" /\ xml.cat # <<>>) =>
          /\ elastics["e"].st = "defined"
          /\ HeldElems(arrays, elastics["e"]) = xml.cat
    /\ (xml.ok /\ xml.who = "e") =>
          /\ elastics["e"].st = "defined"
          /\ HeldElems(arrays, elastics["e"]) = xml.prev \o <<xml.last>>

\* three successful calls on an e that started undefined, the last of them
\* through Map
C15_Witness ==
    /\ xml.start = "undefined"
    /\ Len(xml.cat) >= 3
    /\ xml.ok
    /\ xml.mapped
    /\ HeldElems(arrays, elastics["e"]) = xml.cat

\* C18: Map hands f a slice whose capacity is its length whenever e is
\* defined, so that e, its copies and the values made from them by
\* UnmarshalXML each hold exactly the elements their own calls gave them:
\* an append through one never shows through another.
C18_MapCapsSlice ==
    /\ xml.mapped => xml.passed.cap = xml.passed.len
    /\ \A h \in Handles :
          /\ elastics[h].st = xml.exp[h].st
          /\ HeldElems(arrays, elastics[h]) = xml.exp[h].elems

=============================================================================
